---------------------------- MODULE Spec2Model ----------------------------
(* Repository reconciliation of octopus (src/octopus/git): the two           *)
(* implementations of the checkout strategies, GitManager and               *)
(* GitCheckoutManager, as state machines over the local working copy.       *)
(* One step of a call is one sub-operation (remove_directory,               *)
(* clone_repository, reset_hard, clean_untracked, git fetch,                *)
(* git branch --show-current, git checkout, pull_repository); the outcome   *)
(* of the external command is chosen by the environment.                    *)
EXTENDS Integers, Sequences, FiniteSets, TLC

VARIABLES fs, call, active, tampered, boot, twin, ext, pipe

gitVars == <<fs, call, active, tampered>>

bootVars == <<boot, twin>>

buildVars == <<ext, pipe>>

vars == <<fs, call, active, tampered, boot, twin, ext, pipe>>

(***************************************************************************)
(* Inputs                                                                  *)
(***************************************************************************)
Procs == {1, 2}

\* Branches that exist on the remote; a clone leaves one of them checked out.
Branches == {"main", "release/1.2"}

\* Identifiers a caller passes as target (branch name, commit hash, tag name).
Names == Branches \cup {"v1.0"}

\* What a caller may pass: the names, and a remote-qualified branch name.
Targets == Names \cup {"origin/main"}

TargetTypes == {"branch", "commit", "tag"}

Strategies == {"fresh", "preserve", "other"}

Impls == {"GitManager", "GitCheckoutManager"}

\* "public": checkout_branch / checkout_commit / checkout_tag;
\* "direct": (_)checkout_with_strategy called with the target type.
Entries == {"public", "direct"}

Whitespace == {" ", "\n", "\t"}

(***************************************************************************)
(* The local path                                                          *)
(***************************************************************************)
Absent == [kind |-> "absent", head |-> "", modified |-> FALSE, untracked |-> FALSE]

PlainDir == [kind |-> "dir", head |-> "", modified |-> FALSE, untracked |-> FALSE]

Repo(h, m, u) == [kind |-> "repo", head |-> h, modified |-> m, untracked |-> u]

\* States the caller's environment can leave the local path in.
FsStates ==
    {Absent, PlainDir} \cup {Repo(h, m, u) : h \in Names, m \in BOOLEAN, u \in BOOLEAN}

Exists(f) == f.kind # "absent"

IsGitRepo(f) == f.kind = "repo"

\* stdout of `git branch --show-current`: the branch name and a newline, or
\* only the newline when HEAD is detached. Text is a sequence of tokens.
ShowCurrentOutput(f) == IF f.head \in Branches THEN <<f.head, "\n">> ELSE <<"\n">>

\* What _run_command returns as text: stdout, or "Error: <stderr>" on failure.
RunCommandText(ok, out) == IF ok THEN out ELSE <<"Error: ", "\n">>

RECURSIVE LStrip(_)
LStrip(s) == IF s # <<>> /\ Head(s) \in Whitespace THEN LStrip(Tail(s)) ELSE s

RECURSIVE RStrip(_)
RStrip(s) ==
    IF s # <<>> /\ s[Len(s)] \in Whitespace THEN RStrip(SubSeq(s, 1, Len(s) - 1)) ELSE s

\* str.strip()
Strip(s) == RStrip(LStrip(s))

(***************************************************************************)
(* Outcomes of the sub-operations: sets of <<success, local path after>>   *)
(***************************************************************************)
RemoveOutcomes(f) ==
    IF ~Exists(f) THEN {<<TRUE, f>>}
    ELSE {<<TRUE, Absent>>, <<FALSE, f>>, <<FALSE, PlainDir>>}

CloneOutcomes(f) ==
    IF IsGitRepo(f) THEN {<<FALSE, f>>}
    ELSE {<<TRUE, Repo(b, FALSE, FALSE)>> : b \in Branches}
         \cup {<<FALSE, f>>, <<FALSE, PlainDir>>}

ResetOutcomes(f) ==
    IF ~IsGitRepo(f) THEN {<<FALSE, f>>}
    ELSE {<<TRUE, [f EXCEPT !.modified = FALSE]>>, <<FALSE, f>>}

CleanOutcomes(f) ==
    IF ~IsGitRepo(f) THEN {<<FALSE, f>>}
    ELSE {<<TRUE, [f EXCEPT !.untracked = FALSE]>>, <<FALSE, f>>}

PullOutcomes(f) == IF ~IsGitRepo(f) THEN {<<FALSE, f>>} ELSE {<<TRUE, f>>, <<FALSE, f>>}

RunCommandOutcomes(f) == IF ~IsGitRepo(f) THEN {<<FALSE, f>>} ELSE {<<TRUE, f>>, <<FALSE, f>>}

CheckoutOutcomes(f, ref) ==
    IF ~IsGitRepo(f) THEN {<<FALSE, f>>}
    ELSE {<<TRUE, [f EXCEPT !.head = ref]>>, <<FALSE, f>>}

(***************************************************************************)
(* GitManager (git_manager.py)                                             *)
(***************************************************************************)
GM_CheckoutCommand(target, target_type) ==
    IF target_type = "tag" THEN "tags/" \o target ELSE target

\* The command of the Fresh branch of _checkout_with_strategy.
GM_FreshCheckoutCommand(target, target_type) ==
    IF target_type = "tag" THEN "tags/" \o target ELSE target

\* checkout_commit / checkout_tag: TRUE when the call returns False at once.
\* Variant: the repository test of the guard is inverted.
GM_PublicGuard_Inverted(c, f) ==
    c.target_type \in {"commit", "tag"} /\ IsGitRepo(f) /\ c.strategy = "preserve"

GM_PublicGuard(c, f) ==
    c.target_type \in {"commit", "tag"} /\ ~IsGitRepo(f) /\ c.strategy = "preserve"

\* Variant: the .git test is missing, every existing path is removed.
GM_Prepare_AlwaysReclone(f) == IF ~Exists(f) THEN "clone" ELSE "remove"

\* Variant: an existing path is taken for a working copy without the .git test.
GM_Prepare_NoGitTest(f) == IF ~Exists(f) THEN "clone" ELSE "reset"

GM_Prepare(f) ==
    IF ~Exists(f) THEN "clone"
    ELSE IF ~IsGitRepo(f) THEN "remove"
    ELSE "reset"

GM_Enter(c, f) ==
    IF c.entry = "public" /\ GM_PublicGuard(c, f) THEN "ret_false"
    ELSE IF c.strategy \notin {"fresh", "preserve"} THEN "ret_false"
    ELSE IF c.strategy = "preserve" THEN GM_Prepare(f)
    ELSE "remove"

\* Variant: the output is compared without strip().
GM_NeedsCheckout_NoStrip(ok, out, target) == ~(ok /\ out = <<target>>)

GM_NeedsCheckout(ok, out, target) == ~(ok /\ Strip(out) = <<target>>)

\* Variant: the current branch is queried for every target type.
GM_Decide_AlwaysQuery(c) == "show_current"

GM_Decide(c) == IF c.target_type = "branch" THEN "show_current" ELSE "checkout"

\* Variant: a branch is pulled whether or not it was checked out.
GM_Update_AlwaysPull(c, needs) == IF c.target_type = "branch" THEN "pull" ELSE "ret_true"

GM_Update(c, needs) ==
    IF c.target_type = "branch" /\ ~needs THEN "pull" ELSE "ret_true"

\* Variant: the result of reset_hard is ignored.
GM_AfterPreserve_ResetIgnored(c, op, ok, needs) ==
    CASE op = "remove" -> IF ok THEN "clone" ELSE "ret_false"
      [] op = "clone" -> IF ok THEN GM_Decide(c) ELSE "ret_false"
      [] op = "reset" -> "clean"
      [] op = "clean" ->
            IF ~ok THEN "ret_false"
            ELSE IF c.target_type = "branch" THEN "fetch"
            ELSE GM_Decide(c)
      [] op = "fetch" -> IF ok THEN GM_Decide(c) ELSE "ret_false"
      [] op = "show_current" -> IF needs THEN "checkout" ELSE GM_Update(c, needs)
      [] op = "checkout" -> IF ok THEN GM_Update(c, needs) ELSE "ret_false"
      [] op = "pull" -> "ret_true"

\* Variant: a failed pull fails the call.
GM_AfterPreserve_PullFatal(c, op, ok, needs) ==
    CASE op = "remove" -> IF ok THEN "clone" ELSE "ret_false"
      [] op = "clone" -> IF ok THEN GM_Decide(c) ELSE "ret_false"
      [] op = "reset" -> IF ok THEN "clean" ELSE "ret_false"
      [] op = "clean" ->
            IF ~ok THEN "ret_false"
            ELSE IF c.target_type = "branch" THEN "fetch"
            ELSE GM_Decide(c)
      [] op = "fetch" -> IF ok THEN GM_Decide(c) ELSE "ret_false"
      [] op = "show_current" -> IF needs THEN "checkout" ELSE GM_Update(c, needs)
      [] op = "checkout" -> IF ok THEN GM_Update(c, needs) ELSE "ret_false"
      [] op = "pull" -> IF ok THEN "ret_true" ELSE "ret_false"

GM_AfterPreserve(c, op, ok, needs) ==
    CASE op = "remove" -> IF ok THEN "clone" ELSE "ret_false"
      [] op = "clone" -> IF ok THEN GM_Decide(c) ELSE "ret_false"
      [] op = "reset" -> IF ok THEN "clean" ELSE "ret_false"
      [] op = "clean" ->
            IF ~ok THEN "ret_false"
            ELSE IF c.target_type = "branch" THEN "fetch"
            ELSE GM_Decide(c)
      [] op = "fetch" -> IF ok THEN GM_Decide(c) ELSE "ret_false"
      [] op = "show_current" -> IF needs THEN "checkout" ELSE GM_Update(c, needs)
      [] op = "checkout" -> IF ok THEN GM_Update(c, needs) ELSE "ret_false"
      [] op = "pull" -> "ret_true"

\* Variant: a failed clone does not stop the Fresh strategy.
GM_AfterFresh_NoAbort(c, op, ok) ==
    CASE op = "remove" -> IF ok THEN "clone" ELSE "ret_false"
      [] op = "clone" -> "checkout"
      [] op = "checkout" -> IF ok THEN "ret_true" ELSE "ret_false"

\* Variant: the result of remove_directory is ignored.
GM_AfterFresh_RemoveIgnored(c, op, ok) ==
    CASE op = "remove" -> "clone"
      [] op = "clone" -> IF ok THEN "checkout" ELSE "ret_false"
      [] op = "checkout" -> IF ok THEN "ret_true" ELSE "ret_false"

GM_AfterFresh(c, op, ok) ==
    CASE op = "remove" -> IF ok THEN "clone" ELSE "ret_false"
      [] op = "clone" -> IF ok THEN "checkout" ELSE "ret_false"
      [] op = "checkout" -> IF ok THEN "ret_true" ELSE "ret_false"

GM_After(c, op, ok, needs) ==
    IF c.strategy = "preserve" THEN GM_AfterPreserve(c, op, ok, needs)
    ELSE GM_AfterFresh(c, op, ok)

(***************************************************************************)
(* GitCheckoutManager (git_checkout_manager.py)                            *)
(***************************************************************************)
\* Variant: the tags/ prefix is left out.
CM_BuildCheckoutCommand_NoPrefix(target, target_type) == target

CM_BuildCheckoutCommand(target, target_type) ==
    IF target_type = "tag" THEN "tags/" \o target ELSE target

CM_PublicGuard(c, f) ==
    c.target_type \in {"commit", "tag"} /\ ~IsGitRepo(f) /\ c.strategy = "preserve"

CM_PrepareRepositoryForPreserveStrategy(f) ==
    IF ~Exists(f) THEN "clone"
    ELSE IF ~IsGitRepo(f) THEN "remove"
    ELSE "reset"

CM_Enter(c, f) ==
    IF c.entry = "public" /\ CM_PublicGuard(c, f) THEN "ret_false"
    ELSE IF c.strategy \notin {"fresh", "preserve"} THEN "ret_false"
    ELSE IF c.strategy = "preserve" THEN CM_PrepareRepositoryForPreserveStrategy(f)
    ELSE "remove"

\* Variant: a remote-qualified target is compared without its origin/ prefix.
CM_IsAlreadyOnTarget_Normalized(ok, out, target) ==
    ok /\ \E b \in Branches : Strip(out) = <<b>> /\ target \in {b, "origin/" \o b}

\* needs_checkout = not already_on_target
CM_IsAlreadyOnTarget(ok, out, target) == ok /\ Strip(out) = <<target>>

\* After _fetch_if_needed returned True for a target that is not a branch, and
\* after the fetch itself for a branch: _is_already_on_target, then checkout.
CM_CheckTarget(c) == IF c.target_type = "branch" THEN "show_current" ELSE "checkout"

\* Variant: _fetch_if_needed never fetches.
CM_FetchIfNeeded_Skip(c) == CM_CheckTarget(c)

CM_FetchIfNeeded(c) == IF c.target_type = "branch" THEN "fetch" ELSE CM_CheckTarget(c)

CM_HandleBranchUpdate(needs_checkout) == IF ~needs_checkout THEN "pull" ELSE "ret_true"

CM_Finish(c, needs) ==
    IF c.target_type = "branch" THEN CM_HandleBranchUpdate(needs) ELSE "ret_true"

\* Variant: the result of _perform_checkout is ignored.
CM_AfterPreserve_CheckoutIgnored(c, op, ok, needs) ==
    CASE op = "remove" -> IF ok THEN "clone" ELSE "ret_false"
      [] op = "clone" -> IF ok THEN CM_FetchIfNeeded(c) ELSE "ret_false"
      [] op = "reset" -> IF ok THEN "clean" ELSE "ret_false"
      [] op = "clean" -> IF ok THEN CM_FetchIfNeeded(c) ELSE "ret_false"
      [] op = "fetch" -> IF ok THEN CM_CheckTarget(c) ELSE "ret_false"
      [] op = "show_current" -> IF needs THEN "checkout" ELSE CM_Finish(c, needs)
      [] op = "checkout" -> CM_Finish(c, needs)
      [] op = "pull" -> "ret_true"

CM_AfterPreserve(c, op, ok, needs) ==
    CASE op = "remove" -> IF ok THEN "clone" ELSE "ret_false"
      [] op = "clone" -> IF ok THEN CM_FetchIfNeeded(c) ELSE "ret_false"
      [] op = "reset" -> IF ok THEN "clean" ELSE "ret_false"
      [] op = "clean" -> IF ok THEN CM_FetchIfNeeded(c) ELSE "ret_false"
      [] op = "fetch" -> IF ok THEN CM_CheckTarget(c) ELSE "ret_false"
      [] op = "show_current" -> IF needs THEN "checkout" ELSE CM_Finish(c, needs)
      [] op = "checkout" -> IF ok THEN CM_Finish(c, needs) ELSE "ret_false"
      [] op = "pull" -> "ret_true"

\* Variant: the Fresh strategy returns after the clone.
CM_AfterFresh_NoCheckout(c, op, ok) ==
    CASE op = "remove" -> IF ok THEN "clone" ELSE "ret_false"
      [] op = "clone" -> IF ok THEN "ret_true" ELSE "ret_false"
      [] op = "checkout" -> IF ok THEN "ret_true" ELSE "ret_false"

CM_AfterFresh(c, op, ok) ==
    CASE op = "remove" -> IF ok THEN "clone" ELSE "ret_false"
      [] op = "clone" -> IF ok THEN "checkout" ELSE "ret_false"
      [] op = "checkout" -> IF ok THEN "ret_true" ELSE "ret_false"

CM_After(c, op, ok, needs) ==
    IF c.strategy = "preserve" THEN CM_AfterPreserve(c, op, ok, needs)
    ELSE CM_AfterFresh(c, op, ok)

(***************************************************************************)
(* A call                                                                  *)
(***************************************************************************)
\* What the caller keeps of its last call: nothing, or the target and the
\* resulting HEAD of a Fresh call that succeeded.
NoPrev == [target |-> "", target_type |-> "", head |-> ""]

\* rerun: this Fresh call repeats the caller's last successful Fresh call;
\* prevHead: the HEAD that call left; corrupted: the local path was changed
\* between the two; disturbed: another call changed the local path while
\* this one was running.
IdleCall ==
    [pc |-> "idle", impl |-> "GitManager", entry |-> "public", target |-> "",
     target_type |-> "", strategy |-> "", log |-> <<>>, result |-> FALSE,
     needs_checkout |-> TRUE, start |-> Absent, end |-> Absent,
     last |-> NoPrev, rerun |-> FALSE, prevHead |-> "", corrupted |-> FALSE,
     disturbed |-> FALSE]

Enter(c, f) == IF c.impl = "GitManager" THEN GM_Enter(c, f) ELSE CM_Enter(c, f)

After(c, op, ok, needs) ==
    IF c.impl = "GitManager" THEN GM_After(c, op, ok, needs) ELSE CM_After(c, op, ok, needs)

CheckoutRef(c) ==
    IF c.impl = "GitCheckoutManager" THEN CM_BuildCheckoutCommand(c.target, c.target_type)
    ELSE IF c.strategy = "preserve" THEN GM_CheckoutCommand(c.target, c.target_type)
    ELSE GM_FreshCheckoutCommand(c.target, c.target_type)

\* The call after control reached `nxt` with the local path `f`.
Goto(c, nxt, f) ==
    [c EXCEPT !.pc = IF nxt \in {"ret_true", "ret_false"} THEN "done" ELSE nxt,
              !.result = (nxt = "ret_true"),
              !.end = IF nxt \in {"ret_true", "ret_false"} THEN f ELSE @]

\* The call after sub-operation `op` ran on local path `f` and left `f2`.
Advance(c, op, ok, arg, needs, f, f2) ==
    Goto([c EXCEPT !.log = Append(@, [op |-> op, ok |-> ok, arg |-> arg, at |-> f.kind,
                                      head |-> f2.head]),
                   !.needs_checkout = needs],
         After(c, op, ok, needs), f2)

Running(c) == c.pc \notin {"idle", "done"}

Summary(c) ==
    IF c.pc = "done" /\ c.strategy = "fresh" /\ c.result
    THEN [target |-> c.target, target_type |-> c.target_type, head |-> c.end.head]
    ELSE NoPrev

(***************************************************************************)
(* Actions                                                                 *)
(***************************************************************************)
Start(p) ==
    /\ p \in active
    /\ call[p].pc = "idle"
    /\ \E i \in Impls, e \in Entries, t \in Targets, tt \in TargetTypes, s \in Strategies :
         LET last == call[p].last
             same == s = "fresh" /\ last # NoPrev /\ last.target = t
                     /\ last.target_type = tt
             c == [IdleCall EXCEPT !.impl = i, !.entry = e, !.target = t,
                                   !.target_type = tt, !.strategy = s,
                                   !.start = fs, !.rerun = same,
                                   !.prevHead = IF same THEN last.head ELSE "",
                                   !.corrupted = same /\ tampered]
         IN call' = [call EXCEPT ![p] = Goto(c, Enter(c, fs), fs)]
    /\ tampered' = FALSE
    /\ UNCHANGED <<fs, active, bootVars, buildVars>>

\* The other calls after a sub-operation of call p left the local path f2.
Others(p, f2) ==
    [q \in Procs |->
        IF q # p /\ Running(call[q]) /\ f2 # fs
        THEN [call[q] EXCEPT !.disturbed = TRUE]
        ELSE call[q]]

Step(p, op, outcomes, arg) ==
    /\ call[p].pc = op
    /\ \E o \in outcomes :
         /\ fs' = o[2]
         /\ call' = [Others(p, o[2]) EXCEPT
                ![p] = Advance(@, op, o[1], arg, call[p].needs_checkout, fs, o[2])]
    /\ UNCHANGED <<active, tampered, bootVars, buildVars>>

RemoveDirectory(p) == Step(p, "remove", RemoveOutcomes(fs), "")

CloneRepository(p) == Step(p, "clone", CloneOutcomes(fs), "")

ResetHard(p) == Step(p, "reset", ResetOutcomes(fs), "")

CleanUntracked(p) == Step(p, "clean", CleanOutcomes(fs), "")

Fetch(p) == Step(p, "fetch", RunCommandOutcomes(fs), "")

ShowCurrentWith(p, outcomes) ==
    /\ call[p].pc = "show_current"
    /\ \E o \in outcomes :
         LET out == RunCommandText(o[1], ShowCurrentOutput(fs))
             needs == IF call[p].impl = "GitManager"
                      THEN GM_NeedsCheckout(o[1], out, call[p].target)
                      ELSE ~CM_IsAlreadyOnTarget(o[1], out, call[p].target)
         IN call' = [call EXCEPT
                ![p] = Advance(@, "show_current", o[1], "", needs, fs, fs)]
    /\ UNCHANGED <<fs, active, tampered, bootVars, buildVars>>

ShowCurrent(p) == ShowCurrentWith(p, RunCommandOutcomes(fs))

Checkout(p) ==
    Step(p, "checkout", CheckoutOutcomes(fs, CheckoutRef(call[p])), CheckoutRef(call[p]))

PullRepository(p) == Step(p, "pull", PullOutcomes(fs), "")

\* The call has returned; the caller keeps its result.
Return(p) ==
    /\ call[p].pc = "done"
    /\ call' = [call EXCEPT ![p] = [IdleCall EXCEPT !.last = Summary(call[p])]]
    /\ UNCHANGED <<fs, active, tampered, bootVars, buildVars>>

\* Between calls the local path changes arbitrarily (deleted, metadata
\* removed, files modified, another branch checked out).
Corrupt ==
    /\ \A p \in Procs : call[p].pc = "idle"
    /\ fs' \in FsStates \ {fs}
    /\ tampered' = TRUE
    /\ UNCHANGED <<call, active, bootVars, buildVars>>

\* One call of extract_file_path before it is made.
IdleExt == [pc |-> "idle", output |-> <<>>,
            result |-> [some |-> FALSE, path |-> <<>>]]

\* One run of the pipeline before it starts.
IdlePipe ==
    [pc |-> "idle", mode |-> "build", platform |-> "android",
     stages |-> <<>>, cwd |-> "start", entry_cwd |-> "start",
     build_path |-> "app", melos |-> FALSE,
     files |-> <<>>, main_files |-> <<>>, entry_points |-> <<>>,
     pick |-> [file |-> 0, has_runapp |-> FALSE],
     exit |-> "", output |-> <<>>,
     extracted |-> [some |-> FALSE, path |-> <<>>],
     built |-> [some |-> FALSE, path |-> <<>>],
     deployed |-> FALSE, raised |-> FALSE, error |-> ""]

\* The retry executor's call record (run_melos_bootstrap), idle here.
NoMsg == [text |-> "", attempt |-> 0, after |-> 0, retrying |-> FALSE]

IdleBoot ==
    [pc |-> "idle", max_retries |-> 0, attempt |-> 0, config |-> FALSE,
     preflights |-> 0, invocations |-> 0, delays |-> 0, slept |-> 0,
     trace |-> <<>>, result |-> FALSE, msg |-> NoMsg, printed |-> NoMsg]

Init ==
    /\ fs \in FsStates
    /\ call = [p \in Procs |-> IdleCall]
    /\ active = {1}
    /\ tampered = FALSE
    /\ boot = IdleBoot
    /\ twin = IdleBoot
    /\ ext = IdleExt
    /\ pipe = IdlePipe

Next ==
    \/ \E p \in Procs : Start(p)
    \/ \E p \in Procs : RemoveDirectory(p)
    \/ \E p \in Procs : CloneRepository(p)
    \/ \E p \in Procs : ResetHard(p)
    \/ \E p \in Procs : CleanUntracked(p)
    \/ \E p \in Procs : Fetch(p)
    \/ \E p \in Procs : ShowCurrent(p)
    \/ \E p \in Procs : Checkout(p)
    \/ \E p \in Procs : PullRepository(p)
    \/ \E p \in Procs : Return(p)
    \/ Corrupt

Spec == Init /\ [][Next]_vars


(***************************************************************************)
(* Two calls on the same local path, interleaved at the granularity of the *)
(* sub-operations.  The environment is benign: a sub-operation fails only  *)
(* when the state of the local path leaves it no way to succeed.           *)
(***************************************************************************)
Benign(outcomes) ==
    IF \E o \in outcomes : o[1] THEN {o \in outcomes : o[1]} ELSE outcomes

\* checkout_branch(target, strategy) of either implementation; the first
\* caller wants main.
StartInterleaved(p) ==
    /\ p \in active
    /\ call[p].pc = "idle"
    /\ \E i \in Impls, s \in {"fresh", "preserve"},
          t \in IF p = 1 THEN {"main"} ELSE Branches :
         LET c == [IdleCall EXCEPT !.impl = i, !.entry = "public", !.target = t,
                                   !.target_type = "branch", !.strategy = s,
                                   !.start = fs]
         IN call' = [call EXCEPT ![p] = Goto(c, Enter(c, fs), fs)]
    /\ UNCHANGED <<fs, active, tampered, bootVars, buildVars>>

RemoveInterleaved(p) == Step(p, "remove", Benign(RemoveOutcomes(fs)), "")

CloneInterleaved(p) == Step(p, "clone", Benign(CloneOutcomes(fs)), "")

ResetInterleaved(p) == Step(p, "reset", Benign(ResetOutcomes(fs)), "")

CleanInterleaved(p) == Step(p, "clean", Benign(CleanOutcomes(fs)), "")

FetchInterleaved(p) == Step(p, "fetch", Benign(RunCommandOutcomes(fs)), "")

ShowCurrentInterleaved(p) == ShowCurrentWith(p, Benign(RunCommandOutcomes(fs)))

CheckoutInterleaved(p) ==
    Step(p, "checkout", Benign(CheckoutOutcomes(fs, CheckoutRef(call[p]))),
         CheckoutRef(call[p]))

PullInterleaved(p) == Step(p, "pull", Benign(PullOutcomes(fs)), "")

InitInterleaved ==
    /\ fs \in {Absent, PlainDir, Repo("main", FALSE, FALSE),
                Repo("release/1.2", TRUE, TRUE)}
    /\ call = [p \in Procs |-> IdleCall]
    /\ active = Procs
    /\ tampered = FALSE
    /\ boot = IdleBoot
    /\ twin = IdleBoot
    /\ ext = IdleExt
    /\ pipe = IdlePipe

NextInterleaved ==
    \/ \E p \in Procs : StartInterleaved(p)
    \/ \E p \in Procs : RemoveInterleaved(p)
    \/ \E p \in Procs : CloneInterleaved(p)
    \/ \E p \in Procs : ResetInterleaved(p)
    \/ \E p \in Procs : CleanInterleaved(p)
    \/ \E p \in Procs : FetchInterleaved(p)
    \/ \E p \in Procs : ShowCurrentInterleaved(p)
    \/ \E p \in Procs : CheckoutInterleaved(p)
    \/ \E p \in Procs : PullInterleaved(p)

SpecInterleaved == InitInterleaved /\ [][NextInterleaved]_vars


(***************************************************************************)
(* Retry executor: FlutterMelosChecker.run_melos_bootstrap                 *)
(***************************************************************************)
MaxRetries == 3

DefaultMaxRetries == 3

RetryDelay == 2

RetryBudgets == (-1..MaxRetries) \cup {DefaultMaxRetries}

PreflightOutcomes == {"ok", "nonzero", "not_found", "timeout", "error"}

FailureKinds == {"nonzero", "timeout", "exception"}

AttemptOutcomes == {"zero"} \cup FailureKinds

\* "Melos bootstrap completed successfully", with the attempt count when the
\* success was not the first attempt.
SuccessMsg(attempt) ==
    [NoMsg EXCEPT !.text = "completed",
                  !.after = IF attempt > 0 THEN attempt + 1 ELSE 0]

\* The error text of a failed attempt: the exit code for a non-zero exit,
\* "(attempt n)" for a timeout and for any other exception.
ErrorMsg(kind, attempt) ==
    CASE kind = "nonzero" -> [NoMsg EXCEPT !.text = "exit_code"]
      [] kind = "timeout" -> [NoMsg EXCEPT !.text = "timed_out",
                                           !.attempt = attempt + 1]
      [] OTHER -> [NoMsg EXCEPT !.text = "unexpected",
                                !.attempt = attempt + 1]

ShouldRetryAndWait_SleepAfterLast(attempt, max_retries) ==
    attempt < max_retries

\* _should_retry_and_wait: TRUE (after printing and sleeping) when another
\* attempt remains, FALSE (after printing the final message) otherwise.
ShouldRetryAndWait(attempt, max_retries) ==
    attempt < max_retries - 1

\* What _should_retry_and_wait prints.
RetryPrint(attempt, max_retries, error_msg) ==
    IF ShouldRetryAndWait(attempt, max_retries)
    THEN [error_msg EXCEPT !.retrying = TRUE]
    ELSE [error_msg EXCEPT !.after = max_retries]

\* Variant: a loop that made no attempt falls through to success.
LoopEnter_EmptySucceeds(b) ==
    IF b.attempt < b.max_retries
    THEN [b EXCEPT !.pc = "attempt"]
    ELSE [b EXCEPT !.pc = "done", !.result = (b.max_retries <= 0),
                   !.msg = [NoMsg EXCEPT !.text = "failed",
                                         !.after = b.max_retries]]

\* for attempt in range(max_retries): the next iteration, or the return
\* after the loop.
LoopEnter(b) ==
    IF b.attempt < b.max_retries
    THEN [b EXCEPT !.pc = "attempt"]
    ELSE [b EXCEPT !.pc = "done", !.result = FALSE,
                   !.msg = [NoMsg EXCEPT !.text = "failed",
                                         !.after = b.max_retries]]

\* Entry of run_melos_bootstrap: the melos.yaml check.
BootEnter(max_retries, config) ==
    LET b == [IdleBoot EXCEPT !.max_retries = max_retries,
                              !.config = config]
    IN IF config
       THEN [b EXCEPT !.pc = "preflight"]
       ELSE [b EXCEPT !.pc = "done", !.result = FALSE,
                      !.msg = [NoMsg EXCEPT !.text = "no_config"]]

AfterPreflight_NotFoundIgnored(b, outcome) ==
    LET b1 == [b EXCEPT !.preflights = @ + 1,
                        !.trace = Append(@, [ev |-> "preflight",
                                             kind |-> outcome])]
    IN IF outcome \in {"timeout", "error"}
       THEN [b1 EXCEPT !.pc = "raised"]
       ELSE LoopEnter(b1)

\* melos --version: only FileNotFoundError is handled; the exit code is not
\* looked at; a timeout of the 10 s limit and any other error of starting
\* the process are not caught.
AfterPreflight(b, outcome) ==
    LET b1 == [b EXCEPT !.preflights = @ + 1,
                        !.trace = Append(@, [ev |-> "preflight",
                                             kind |-> outcome])]
    IN CASE outcome = "not_found" ->
              [b1 EXCEPT !.pc = "done", !.result = FALSE,
                         !.msg = [NoMsg EXCEPT !.text = "not_found"]]
         [] outcome \in {"timeout", "error"} -> [b1 EXCEPT !.pc = "raised"]
         [] OTHER -> LoopEnter(b1)

\* The end of each failure branch: `if self._should_retry_and_wait(...):
\* continue`, else `return False, error_msg`.
RetryOrReturn(b, error_msg) ==
    IF ShouldRetryAndWait(b.attempt, b.max_retries)
    THEN [b EXCEPT !.pc = "sleep",
                   !.printed = RetryPrint(b.attempt, b.max_retries,
                                          error_msg)]
    ELSE [b EXCEPT !.pc = "done", !.result = FALSE,
                   !.msg = error_msg,
                   !.printed = RetryPrint(b.attempt, b.max_retries,
                                          error_msg)]

\* The bootstrap command has been run once more.
Invoked(b, kind) ==
    [b EXCEPT !.invocations = @ + 1,
              !.trace = Append(@, [ev |-> "attempt", kind |-> kind])]

AfterAttempt_OffByOneNote(b, kind) ==
    LET b1 == Invoked(b, kind)
        note == [SuccessMsg(b.attempt) EXCEPT !.after = b.attempt]
    IN CASE kind = "zero" ->
              [b1 EXCEPT !.pc = "done", !.result = TRUE,
                         !.msg = note, !.printed = note]
         [] OTHER -> RetryOrReturn(b1, ErrorMsg(kind, b.attempt))

AfterAttempt_TimeoutFatal(b, kind) ==
    LET b1 == Invoked(b, kind)
    IN CASE kind = "zero" ->
              [b1 EXCEPT !.pc = "done", !.result = TRUE,
                         !.msg = SuccessMsg(b.attempt),
                         !.printed = SuccessMsg(b.attempt)]
         [] kind = "timeout" ->
              [b1 EXCEPT !.pc = "done", !.result = FALSE,
                         !.msg = ErrorMsg("timeout", b.attempt),
                         !.printed = ErrorMsg("timeout", b.attempt)]
         [] OTHER -> RetryOrReturn(b1, ErrorMsg(kind, b.attempt))

\* One iteration of the loop up to the sleep: melos bootstrap is run; exit 0
\* returns success; the non-zero exit, the TimeoutExpired handler and the
\* Exception handler each build their error text and end the same way.
AfterAttempt(b, kind) ==
    LET b1 == Invoked(b, kind)
    IN CASE kind = "zero" ->
              [b1 EXCEPT !.pc = "done", !.result = TRUE,
                         !.msg = SuccessMsg(b.attempt),
                         !.printed = SuccessMsg(b.attempt)]
         [] kind = "nonzero" ->
              RetryOrReturn(b1, ErrorMsg("nonzero", b.attempt))
         [] kind = "timeout" ->
              RetryOrReturn(b1, ErrorMsg("timeout", b.attempt))
         [] OTHER ->
              RetryOrReturn(b1, ErrorMsg("exception", b.attempt))

AfterSleep_NoIncrement(b) ==
    LoopEnter([b EXCEPT !.delays = @ + 1,
                        !.slept = @ + RetryDelay,
                        !.trace = Append(@, [ev |-> "sleep",
                                             kind |-> "delay"])])

\* time.sleep(2) inside _should_retry_and_wait, then `continue`.
AfterSleep(b) ==
    LoopEnter([b EXCEPT !.delays = @ + 1,
                        !.slept = @ + RetryDelay,
                        !.attempt = @ + 1,
                        !.trace = Append(@, [ev |-> "sleep",
                                             kind |-> "delay"])])

\* The same failure seen as a non-zero exit.
AsExit(kind) == IF kind \in FailureKinds THEN "nonzero" ELSE kind

\* twin is the same call in which every failure is a non-zero exit.
BootStart ==
    /\ boot.pc = "idle"
    /\ \E n \in RetryBudgets, config \in BOOLEAN :
           /\ boot' = BootEnter(n, config)
           /\ twin' = BootEnter(n, config)
    /\ UNCHANGED <<gitVars, buildVars>>

Preflight ==
    /\ boot.pc = "preflight"
    /\ \E o \in PreflightOutcomes :
           /\ boot' = AfterPreflight(boot, o)
           /\ twin' = IF twin.pc = "preflight"
                      THEN AfterPreflight(twin, o)
                      ELSE twin
    /\ UNCHANGED <<gitVars, buildVars>>

Attempt ==
    /\ boot.pc = "attempt"
    /\ \E kind \in AttemptOutcomes :
           /\ boot' = AfterAttempt(boot, kind)
           /\ twin' = IF twin.pc = "attempt"
                      THEN AfterAttempt(twin, AsExit(kind))
                      ELSE twin
    /\ UNCHANGED <<gitVars, buildVars>>

Sleep ==
    /\ boot.pc = "sleep"
    /\ boot' = AfterSleep(boot)
    /\ twin' = IF twin.pc = "sleep" THEN AfterSleep(twin) ELSE twin
    /\ UNCHANGED <<gitVars, buildVars>>

BootReturn ==
    /\ boot.pc \in {"done", "raised"}
    /\ boot' = IdleBoot
    /\ twin' = IdleBoot
    /\ UNCHANGED <<gitVars, buildVars>>

InitRetry ==
    /\ fs = Absent
    /\ call = [p \in Procs |-> IdleCall]
    /\ active = {1}
    /\ tampered = FALSE
    /\ boot = IdleBoot
    /\ twin = IdleBoot
    /\ ext = IdleExt
    /\ pipe = IdlePipe

NextRetry ==
    \/ BootStart
    \/ Preflight
    \/ Attempt
    \/ Sleep
    \/ BootReturn

SpecRetry == InitRetry /\ [][NextRetry]_vars

\* Every external invocation returns or runs into its timeout, and the sleep
\* ends: a call that has been entered keeps taking its steps.
SpecRetryLive == SpecRetry /\ WF_vars(Preflight \/ Attempt \/ Sleep)


(***************************************************************************)
(* Artifact extraction: BuilderFutterAndroid.extract_file_path and         *)
(* BuilderFutterIOS.extract_xcarchive_path.  A text is a sequence of       *)
(* symbols: the words the patterns name, "x" for any other run of          *)
(* non-space characters, and white space.                                  *)
(***************************************************************************)
MaxTokens == 3

Extensions == {".aab", ".apk"}

\* The words an output is made of, each free of white space.
Tokens ==
    {<<>>, <<"x">>, <<"Built">>, <<".aab">>,
     <<"x", ".aab">>, <<"x", ".apk">>, <<"x", ".aab", "x">>,
     <<"build/", "x", ".aab">>, <<"build/", "x", ".apk">>,
     <<"app-release", ".aab">>, <<"x", "app-release", ".apk">>}

RECURSIVE Join(_)
Join(ts) ==
    IF ts = <<>> THEN <<>>
    ELSE IF Len(ts) = 1 THEN ts[1]
    ELSE ts[1] \o <<" ">> \o Join(Tail(ts))

TokenSeqs == UNION {[1..n -> Tokens] : n \in 0..MaxTokens}

Outputs == {Join(ts) : ts \in TokenSeqs}

None == [some |-> FALSE, path |-> <<>>]

Some(path) == [some |-> TRUE, path |-> path]

Min(S) == CHOOSE m \in S : \A k \in S : m <= k

Max(S) == CHOOSE m \in S : \A k \in S : m >= k

\* \s and [^\s]
IsSpace(c) == c \in Whitespace

\* The end of the longest run of white space (ws) or of non-space symbols
\* that starts at s; s - 1 when there is none.
RECURSIVE SpanEnd(_, _, _)
SpanEnd(o, s, ws) ==
    IF s <= Len(o) /\ IsSpace(o[s]) = ws THEN SpanEnd(o, s + 1, ws) ELSE s - 1

\* Built\s+([^\s]+\.aab) and Built\s+([^\s]+\.apk) tried at position i: the
\* greedy [^\s]+ runs to the end of the word and gives back to the last
\* extension that has a symbol before it.
BuiltAt(o, i, extension) ==
    LET j == SpanEnd(o, i + 1, TRUE)
        e == SpanEnd(o, j + 1, FALSE)
        K == {k \in (j + 2)..e : o[k] = extension}
    IN IF o[i] = "Built" /\ j >= i + 1 /\ K # {}
       THEN Some(SubSeq(o, j + 1, Max(K)))
       ELSE None

\* (build/[^\s]*\.(aab|apk)) tried at position i.
BuildPathAt(o, i) ==
    LET e == SpanEnd(o, i, FALSE)
        K == {k \in (i + 1)..e : o[k] \in Extensions}
    IN IF o[i] = "build/" /\ K # {}
       THEN Some(SubSeq(o, i, Max(K)))
       ELSE None

\* ([^\s]*app-release\.(aab|apk)) tried at position i.
FileAt(o, i) ==
    LET e == SpanEnd(o, i, FALSE)
        K == {k \in (i + 1)..e : o[k] \in Extensions /\ o[k - 1] = "app-release"}
    IN IF ~IsSpace(o[i]) /\ K # {}
       THEN Some(SubSeq(o, i, Max(K)))
       ELSE None

\* ([^\s]+\.(aab|apk)) tried at position i.
GeneralAt(o, i) ==
    LET e == SpanEnd(o, i, FALSE)
        K == {k \in (i + 1)..e : o[k] \in Extensions}
    IN IF ~IsSpace(o[i]) /\ K # {}
       THEN Some(SubSeq(o, i, Max(K)))
       ELSE None

\* The end of the line that starts at s: `.` does not match a newline.
RECURSIVE LineEnd(_, _)
LineEnd(o, s) ==
    IF s <= Len(o) /\ o[s] # "\n" THEN LineEnd(o, s + 1) ELSE s - 1

\* open\s+(.+\.xcarchive) tried at position i: \s+ takes the longest run of
\* white space that still leaves a symbol for `.+`, which then runs to the
\* last .xcarchive of the line.
XcarchiveAt(o, i) ==
    LET w == SpanEnd(o, i + 1, TRUE)
        J == {j \in (i + 1)..w :
                 \E k \in (j + 2)..LineEnd(o, j + 1) : o[k] = ".xcarchive"}
        K == {k \in (Max(J) + 2)..LineEnd(o, Max(J) + 1) : o[k] = ".xcarchive"}
    IN IF o[i] = "open" /\ J # {}
       THEN Some(SubSeq(o, Max(J) + 1, Max(K)))
       ELSE None

\* The patterns of the two builders, tried at position i.
PatternAt(pattern, o, i) ==
    CASE pattern = "aab" -> BuiltAt(o, i, ".aab")
      [] pattern = "apk" -> BuiltAt(o, i, ".apk")
      [] pattern = "build_path" -> BuildPathAt(o, i)
      [] pattern = "file" -> FileAt(o, i)
      [] pattern = "general" -> GeneralAt(o, i)
      [] pattern = "xcarchive" -> XcarchiveAt(o, i)

\* re.search: the match at the leftmost position where the pattern matches.
Search(o, pattern) ==
    LET S == {i \in 1..Len(o) : PatternAt(pattern, o, i).some}
    IN IF S = {} THEN None ELSE PatternAt(pattern, o, Min(S))

ExtractFilePath_GeneralFirst(build_output) ==
    LET general_match == Search(build_output, "general")
        aab_match == Search(build_output, "aab")
    IN IF general_match.some THEN general_match ELSE aab_match

\* extract_file_path: the five searches in their order, the first that
\* matches returns its group 1.
ExtractFilePath(build_output) ==
    LET aab_match == Search(build_output, "aab")
        apk_match == Search(build_output, "apk")
        build_match == Search(build_output, "build_path")
        file_match == Search(build_output, "file")
        general_match == Search(build_output, "general")
    IN IF aab_match.some THEN aab_match
       ELSE IF apk_match.some THEN apk_match
       ELSE IF build_match.some THEN build_match
       ELSE IF file_match.some THEN file_match
       ELSE IF general_match.some THEN general_match
       ELSE None

\* One call of extract_file_path on an output text.
ExtractStart ==
    /\ ext.pc = "idle"
    /\ pipe.pc = "idle"
    /\ \E o \in Outputs : ext' = [ext EXCEPT !.pc = "called", !.output = o]
    /\ UNCHANGED <<gitVars, bootVars, pipe>>

Extract ==
    /\ ext.pc = "called"
    /\ ext' = [ext EXCEPT !.pc = "done",
                          !.result = ExtractFilePath(ext.output)]
    /\ UNCHANGED <<gitVars, bootVars, pipe>>

ExtractReturn ==
    /\ ext.pc = "done"
    /\ ext' = IdleExt
    /\ UNCHANGED <<gitVars, bootVars, pipe>>

\* extract_xcarchive_path: group 1 of the match, stripped.
ExtractXcarchivePath(output) ==
    LET match == Search(output, "xcarchive")
    IN IF match.some THEN Some(Strip(match.path)) ELSE None


(***************************************************************************)
(* Entry-point location: FlutterMainFinder                                 *)
(***************************************************************************)
MaxFiles == 3

\* A .dart file of the traversal: whether it can be read, whether a main
\* pattern matches its content and whether a runApp pattern does.
DartFiles ==
    {[readable |-> TRUE, main |-> FALSE, runapp |-> FALSE],
     [readable |-> TRUE, main |-> FALSE, runapp |-> TRUE],
     [readable |-> TRUE, main |-> TRUE, runapp |-> FALSE],
     [readable |-> TRUE, main |-> TRUE, runapp |-> TRUE],
     [readable |-> FALSE, main |-> TRUE, runapp |-> TRUE]}

\* The .dart files under lib/ and test/ of the Flutter projects found, in
\* the order the traversal visits them.
Traversals == UNION {[1..n -> DartFiles] : n \in 0..MaxFiles}

\* search_main_in_file: None for a file that cannot be read or has no main
\* pattern, otherwise its record with has_runapp.
SearchMainInFile(files, i) ==
    IF files[i].readable /\ files[i].main
    THEN Some([file |-> i, has_runapp |-> files[i].runapp])
    ELSE None

\* find_main_functions: main_files after the first n files of the traversal.
RECURSIVE MainFilesUpTo(_, _)
MainFilesUpTo(files, n) ==
    IF n = 0 THEN <<>>
    ELSE LET main_info == SearchMainInFile(files, n)
         IN IF main_info.some
            THEN Append(MainFilesUpTo(files, n - 1), main_info.path)
            ELSE MainFilesUpTo(files, n - 1)

FindMainFunctions(files) == MainFilesUpTo(files, Len(files))

GetFlutterEntryPoints_All(main_files) == main_files

\* get_flutter_entry_points
GetFlutterEntryPoints(main_files) ==
    SelectSeq(main_files, LAMBDA f : f.has_runapp)

NoFile == [file |-> 0, has_runapp |-> FALSE]

\* (entry_points[0] if entry_points else {}).get("file", "")
EntryPick(entry_points) ==
    IF entry_points # <<>> THEN entry_points[1] ELSE NoFile

\* Path(f"./{local_path}/{entry_path}").parent.parent: the application
\* directory of the picked file, and with the empty entry path the parent of
\* ./repo, which is the working directory of the process.
DirAppPath(pick) ==
    IF pick.file # 0 THEN "app" ELSE "start"


(***************************************************************************)
(* The pipeline: main.build, main.deployment and Builder.build             *)
(***************************************************************************)
Platforms == {"ios", "android"}

Modes == {"build", "deployment", "builder"}

\* Texts of the build tool used in the pipeline.
PipelineOutputs ==
    {<<"x">>,
     <<"Built", " ", "build/", "x", ".aab">>,
     <<"Built", " ", "build/", "x", ".apk">>,
     <<"x", " ", "build/", "x", ".aab", " ", "x">>,
     <<"x", "\n", "open", " ", "x", ".xcarchive", "\n">>,
     <<"x", " ", "x", ".xcarchive">>}

Stage(name, ok) == [stage |-> name, ok |-> ok]

Raise_Restoring(p, error) ==
    [p EXCEPT !.pc = "done", !.error = error, !.built = None,
              !.raised = (p.mode = "builder"), !.cwd = p.entry_cwd]

\* An exception: it leaves Builder.build; main.build catches it and returns
\* None; main.deployment turns that into False.
Raise(p, error) ==
    [p EXCEPT !.pc = "done", !.error = error, !.built = None,
              !.raised = (p.mode = "builder")]

\* if not os.path.exists(build_path): raise; os.chdir(build_path)
EnterBuild(p) ==
    LET p1 == [p EXCEPT !.entry_cwd = p.cwd]
    IN IF p.build_path = "missing"
       THEN Raise(p1, "no_build_path")
       ELSE [p1 EXCEPT !.cwd = p.build_path,
                       !.pc = IF p.platform = "ios" THEN "pod_install"
                                                    ELSE "flutter"]

\* build_flutter: subprocess.run without check=True never raises
\* CalledProcessError, so the text is returned whatever the exit status; a
\* missing flutter executable raises.
AfterFlutter(p, exit, output) ==
    LET p1 == [p EXCEPT !.stages = Append(@, Stage("build_tool", exit = "zero")),
                        !.exit = exit, !.output = output]
    IN IF exit = "not_found" THEN Raise(p1, "build_tool")
                             ELSE [p1 EXCEPT !.pc = "extract"]

AfterExtract_SilentEmpty(p) ==
    LET path == IF p.platform = "ios" THEN ExtractXcarchivePath(p.output)
                                      ELSE ExtractFilePath(p.output)
        p1 == [p EXCEPT !.stages = Append(@, Stage("resolve", path.some)),
                        !.extracted = path]
    IN [p1 EXCEPT !.pc = IF p.platform = "ios" THEN "export" ELSE "restore"]

\* extract_file_path / extract_xcarchive_path and the `if not ...: raise`.
AfterExtract(p) ==
    LET path == IF p.platform = "ios" THEN ExtractXcarchivePath(p.output)
                                      ELSE ExtractFilePath(p.output)
        p1 == [p EXCEPT !.stages = Append(@, Stage("resolve", path.some)),
                        !.extracted = path]
    IN IF ~path.some THEN Raise(p1, "extract")
       ELSE [p1 EXCEPT !.pc = IF p.platform = "ios" THEN "export"
                                                    ELSE "restore"]

AfterRestore_Stay(p, path) ==
    IF p.mode = "deployment"
    THEN [p EXCEPT !.built = Some(path), !.pc = "deploy"]
    ELSE [p EXCEPT !.built = Some(path), !.pc = "done"]

\* os.chdir(original_path) and the return of the path; main.build hands it
\* on, main.deployment goes on to deploy it.
AfterRestore(p, path) ==
    LET p1 == [p EXCEPT !.cwd = p.entry_cwd, !.built = Some(path)]
    IN IF p.mode = "deployment"
       THEN [p1 EXCEPT !.pc = "deploy"]
       ELSE [p1 EXCEPT !.pc = "done"]

\* git_manager.checkout_branch(...): the returned flag is dropped; only
\* local_path.exists() is looked at.
AfterReconcile(p, ok, exists) ==
    LET p1 == [p EXCEPT !.stages = Append(@, Stage("reconcile", ok))]
    IN IF exists THEN [p1 EXCEPT !.pc = "bootstrap"]
                 ELSE Raise(p1, "no_local_path")

\* Variant: the flag returned by run_melos_bootstrap is not tested.
AfterBootstrap_Unchecked(p, config, outcome) ==
    IF ~config THEN [p EXCEPT !.melos = FALSE, !.pc = "locate"]
    ELSE [p EXCEPT !.melos = TRUE,
                   !.stages = Append(@, Stage("bootstrap", outcome = "success")),
                   !.pc = "locate"]

\* if checker.has_melos_config(): success, message = run_melos_bootstrap()
AfterBootstrap(p, config, outcome) ==
    IF ~config THEN [p EXCEPT !.melos = FALSE, !.pc = "locate"]
    ELSE LET p1 == [p EXCEPT !.melos = TRUE,
                             !.stages = Append(@, Stage("bootstrap",
                                                        outcome = "success"))]
         IN IF outcome = "success" THEN [p1 EXCEPT !.pc = "locate"]
                                   ELSE Raise(p1, "bootstrap")

\* find_main_functions, get_flutter_entry_points, the pick and the
\* application directory, which exists in either case.
AfterLocate(p, files) ==
    LET main_files == FindMainFunctions(files)
        entry_points == GetFlutterEntryPoints(main_files)
        pick == EntryPick(entry_points)
        p1 == [p EXCEPT !.files = files, !.main_files = main_files,
                        !.entry_points = entry_points, !.pick = pick,
                        !.build_path = DirAppPath(pick),
                        !.stages = Append(@, Stage("locate",
                                                   entry_points # <<>>))]
    IN IF p1.build_path = "missing" THEN Raise(p1, "no_app_dir")
       ELSE [p1 EXCEPT !.pc = "build_enter"]

\* The suffix check of main.deployment and deploy.deploy().
AfterDeploy(p, ok) ==
    IF p.platform = "android" /\ p.built.path[Len(p.built.path)] = ".apk"
    THEN [p EXCEPT !.pc = "done", !.error = "apk"]
    ELSE [p EXCEPT !.pc = "done", !.deployed = ok,
                   !.error = IF ok THEN "" ELSE "deploy",
                   !.stages = Append(@, Stage("deploy", ok))]

ReconcileOutcomes == {<<TRUE, TRUE>>, <<FALSE, TRUE>>, <<FALSE, FALSE>>}

BootstrapOutcomes == {"success", "failure", "raised"}

FlutterExits == {"zero", "nonzero", "not_found"}

PipeStart ==
    /\ pipe.pc = "idle"
    /\ ext.pc = "idle"
    /\ \E mode \in Modes, platform \in Platforms :
           LET p == [IdlePipe EXCEPT !.mode = mode, !.platform = platform]
           IN \/ /\ mode # "builder"
                 /\ pipe' = [p EXCEPT !.pc = "reconcile"]
              \/ /\ mode = "builder"
                 /\ \E build_path \in {"app", "missing"} :
                        pipe' = [p EXCEPT !.pc = "build_enter",
                                          !.build_path = build_path]
    /\ UNCHANGED <<gitVars, bootVars, ext>>

Reconcile ==
    /\ pipe.pc = "reconcile"
    /\ \E o \in ReconcileOutcomes : pipe' = AfterReconcile(pipe, o[1], o[2])
    /\ UNCHANGED <<gitVars, bootVars, ext>>

Bootstrap ==
    /\ pipe.pc = "bootstrap"
    /\ \E config \in BOOLEAN, outcome \in BootstrapOutcomes :
           pipe' = AfterBootstrap(pipe, config, outcome)
    /\ UNCHANGED <<gitVars, bootVars, ext>>

Locate ==
    /\ pipe.pc = "locate"
    /\ \E files \in Traversals : pipe' = AfterLocate(pipe, files)
    /\ UNCHANGED <<gitVars, bootVars, ext>>

BuildEnter ==
    /\ pipe.pc = "build_enter"
    /\ pipe' = EnterBuild(pipe)
    /\ UNCHANGED <<gitVars, bootVars, ext>>

\* pod_install: None without a Podfile, True, or False; only False raises.
PodInstall ==
    /\ pipe.pc = "pod_install"
    /\ \E pod \in {"none", "true", "false"} :
           pipe' = IF pod = "false" THEN Raise(pipe, "pod_install")
                                    ELSE [pipe EXCEPT !.pc = "bundle_id"]
    /\ UNCHANGED <<gitVars, bootVars, ext>>

\* get_bundle_id: the identifier or None.
BundleId ==
    /\ pipe.pc = "bundle_id"
    /\ \E found \in BOOLEAN :
           pipe' = IF found THEN [pipe EXCEPT !.pc = "flutter"]
                            ELSE Raise(pipe, "bundle_id")
    /\ UNCHANGED <<gitVars, bootVars, ext>>

Flutter ==
    /\ pipe.pc = "flutter"
    /\ \E exit \in FlutterExits, output \in PipelineOutputs :
           pipe' = AfterFlutter(pipe, exit, output)
    /\ UNCHANGED <<gitVars, bootVars, ext>>

ExtractArtifact ==
    /\ pipe.pc = "extract"
    /\ pipe' = AfterExtract(pipe)
    /\ UNCHANGED <<gitVars, bootVars, ext>>

\* export_ipa: the path of the .ipa or None.
ExportIpa ==
    /\ pipe.pc = "export"
    /\ \E exported \in BOOLEAN :
           pipe' = IF exported THEN AfterRestore(pipe, <<"x", ".ipa">>)
                               ELSE Raise(pipe, "export")
    /\ UNCHANGED <<gitVars, bootVars, ext>>

Restore ==
    /\ pipe.pc = "restore"
    /\ pipe' = AfterRestore(pipe, pipe.extracted.path)
    /\ UNCHANGED <<gitVars, bootVars, ext>>

Deploy ==
    /\ pipe.pc = "deploy"
    /\ \E ok \in BOOLEAN : pipe' = AfterDeploy(pipe, ok)
    /\ UNCHANGED <<gitVars, bootVars, ext>>

PipeReturn ==
    /\ pipe.pc = "done"
    /\ pipe' = IdlePipe
    /\ UNCHANGED <<gitVars, bootVars, ext>>

InitBuild ==
    /\ fs = Absent
    /\ call = [p \in Procs |-> IdleCall]
    /\ active = {1}
    /\ tampered = FALSE
    /\ boot = IdleBoot
    /\ twin = IdleBoot
    /\ ext = IdleExt
    /\ pipe = IdlePipe

NextBuild ==
    \/ ExtractStart
    \/ Extract
    \/ ExtractReturn
    \/ PipeStart
    \/ Reconcile
    \/ Bootstrap
    \/ Locate
    \/ BuildEnter
    \/ PodInstall
    \/ BundleId
    \/ Flutter
    \/ ExtractArtifact
    \/ ExportIpa
    \/ Restore
    \/ Deploy
    \/ PipeReturn

SpecBuild == InitBuild /\ [][NextBuild]_vars


(***************************************************************************)
(* Properties                                                              *)
(***************************************************************************)
Ops(c) == [i \in 1..Len(c.log) |-> c.log[i].op]

IsPrefix(s, t) == Len(s) <= Len(t) /\ s = SubSeq(t, 1, Len(s))

Issued(c, op) == \E i \in 1..Len(c.log) : c.log[i].op = op

\* The sub-operation has been issued or is the one about to be issued.
Reached(c, op) == Issued(c, op) \/ c.pc = op

AllOk(c) == \A i \in 1..Len(c.log) : c.log[i].ok

\* Every `b` of the log has a successful `a` before it.
OkBefore(c, a, b) ==
    \A j \in 1..Len(c.log) :
        c.log[j].op = b => \E i \in 1..(j - 1) : c.log[i].op = a /\ c.log[i].ok

\* The first sub-operation of the call is `op`.
FirstOp(c, op) ==
    IF c.log = <<>> THEN c.pc = op ELSE c.log[1].op = op

Started(c) == c.pc # "idle"

\* The reference a working copy is on when it is checked out to the target.
ExpectedRef(c) == IF c.target_type = "tag" THEN "tags/" \o c.target ELSE c.target

FreshSteps == <<"remove", "clone", "checkout">>

\* C1: under Fresh the sub-operations are remove, clone, checkout in this
\* order; the first failure ends the call with failure and nothing is issued
\* after it.
C1_FreshOrder ==
    \A p \in Procs :
        LET c == call[p]
            n == Len(c.log)
        IN (Started(c) /\ c.strategy = "fresh") =>
              /\ IsPrefix(Ops(c), FreshSteps)
              /\ \A i \in 1..(n - 1) : c.log[i].ok
              /\ (n > 0 /\ ~c.log[n].ok) => (c.pc = "done" /\ ~c.result)
              /\ c.pc = "done" => (c.result <=> (n = 3 /\ c.log[3].ok))
              /\ Running(c) => (n < 3 /\ c.pc = FreshSteps[n + 1])

C1_Witness ==
    \E p \in Procs :
        /\ call[p].pc = "done" /\ call[p].strategy = "fresh"
        /\ Ops(call[p]) = <<"remove", "clone">>
        /\ ~call[p].log[2].ok
        /\ ~call[p].result

\* C2: a Fresh call whose remove, clone and checkout succeed returns success
\* with the working copy on the target, from every state of the local path;
\* run again for the same target after the local path was changed, it ends
\* on the same HEAD as the run before.
C2_FreshIdempotent ==
    \A p \in Procs :
        LET c == call[p]
        IN (c.pc = "done" /\ c.strategy = "fresh" /\ AllOk(c)) =>
              /\ c.result
              /\ c.end.kind = "repo"
              /\ c.end.head = ExpectedRef(c)
              /\ ~c.end.modified /\ ~c.end.untracked
              /\ c.rerun => c.end.head = c.prevHead

C2_Witness ==
    \E p \in Procs :
        /\ call[p].pc = "done" /\ call[p].strategy = "fresh" /\ call[p].result
        /\ call[p].rerun /\ call[p].corrupted
        /\ call[p].start.kind = "dir"

\* A Preserve call for a branch on a repository that is on that branch.
OnTargetBranch(c) ==
    /\ Started(c)
    /\ c.strategy = "preserve" /\ c.target_type = "branch"
    /\ c.start.kind = "repo"
    /\ c.start.head \in Branches /\ c.start.head = c.target

\* C3 as stated: such a call never invokes checkout, and when it succeeds it
\* has invoked fetch and then pull.
C3_Original ==
    \A p \in Procs :
        LET c == call[p]
        IN OnTargetBranch(c) =>
              /\ ~Reached(c, "checkout")
              /\ (c.pc = "done" /\ c.result) =>
                    (Issued(c, "pull") /\ OkBefore(c, "fetch", "pull"))

\* C3 amended: checkout is invoked only after a current-branch query that
\* failed; pull is only invoked after a successful fetch; and when every
\* sub-operation succeeds the call is reset, clean, fetch, query, pull.
C3_NoCheckoutOnTarget ==
    \A p \in Procs :
        LET c == call[p]
        IN OnTargetBranch(c) =>
              /\ Reached(c, "checkout") =>
                    \E i \in 1..Len(c.log) :
                        c.log[i].op = "show_current" /\ ~c.log[i].ok
              /\ Reached(c, "pull") =>
                    \E i \in 1..Len(c.log) : c.log[i].op = "fetch" /\ c.log[i].ok
              /\ OkBefore(c, "fetch", "pull")
              /\ (c.pc = "done" /\ \A i \in 1..Len(c.log) :
                                      c.log[i].op # "pull" => c.log[i].ok) =>
                    /\ Ops(c) = <<"reset", "clean", "fetch", "show_current", "pull">>
                    /\ c.result

C3_Witness ==
    \E p \in Procs :
        /\ OnTargetBranch(call[p])
        /\ call[p].pc = "done"
        /\ Ops(call[p]) = <<"reset", "clean", "fetch", "show_current", "pull">>
        /\ call[p].result

\* A checkout_commit / checkout_tag call.
PublicPreserve(c, kinds) ==
    /\ Started(c)
    /\ c.entry = "public" /\ c.strategy = "preserve"
    /\ c.target_type \in kinds

\* C4: checkout_commit with Preserve on a directory without .git removes the
\* directory and clones before any checkout.
C4_RecloneBeforeCheckout ==
    \A p \in Procs :
        LET c == call[p]
        IN (PublicPreserve(c, {"commit"}) /\ c.start.kind = "dir") =>
              /\ FirstOp(c, "remove")
              /\ (Len(c.log) >= 1 /\ c.log[1].ok) =>
                    (IF Len(c.log) = 1 THEN c.pc = "clone" ELSE c.log[2].op = "clone")
              /\ OkBefore(c, "remove", "checkout")
              /\ OkBefore(c, "clone", "checkout")

C6_CloneThenCheckout ==
    \A p \in Procs :
        LET c == call[p]
        IN (PublicPreserve(c, TargetTypes) /\ c.start.kind = "absent") =>
              /\ FirstOp(c, "clone")
              /\ (Len(c.log) = 1 /\ c.log[1].ok) =>
                    c.pc \in {"fetch", "show_current", "checkout"}

\* A Preserve call on a path that is a repository when the call starts.
PreserveOnRepo(c) ==
    Started(c) /\ c.strategy = "preserve" /\ c.start.kind = "repo"

\* C7: under Preserve on an existing repository reset comes first and clean
\* second; a failed reset or clean ends the call with failure and nothing is
\* issued after it.
C7_ResetThenClean ==
    \A p \in Procs :
        LET c == call[p]
            n == Len(c.log)
        IN PreserveOnRepo(c) =>
              /\ FirstOp(c, "reset")
              /\ n >= 1 =>
                    IF c.log[1].ok
                    THEN IF n = 1 THEN c.pc = "clean" ELSE c.log[2].op = "clean"
                    ELSE n = 1 /\ c.pc = "done" /\ ~c.result
              /\ (n >= 2 /\ ~c.log[2].ok) => (n = 2 /\ c.pc = "done" /\ ~c.result)
              /\ \A i \in 1..n :
                    c.log[i].op \in {"fetch", "show_current", "checkout", "pull"} =>
                        (i > 2 /\ c.log[1].ok /\ c.log[2].ok)

C7_Witness ==
    \E p \in Procs :
        /\ PreserveOnRepo(call[p])
        /\ call[p].pc = "done" /\ ~call[p].result
        /\ Ops(call[p]) = <<"reset", "clean">>
        /\ ~call[p].log[2].ok

\* C8: under Preserve a path that is a repository when the call starts is
\* never removed and never cloned again, whatever fails later.
C8_NoRemoveNoClone ==
    \A p \in Procs :
        LET c == call[p]
        IN PreserveOnRepo(c) =>
              /\ ~Reached(c, "remove")
              /\ ~Reached(c, "clone")
              /\ c.pc = "done" => c.end.kind = "repo"

C8_Witness ==
    \E p \in Procs :
        /\ PreserveOnRepo(call[p])
        /\ call[p].pc = "done" /\ ~call[p].result
        /\ Issued(call[p], "checkout")

\* Fetch goes before the current-branch query and before checkout, and a
\* failed fetch ends the call with failure.
FetchFirst(c) ==
    /\ Reached(c, "show_current") => Issued(c, "fetch")
    /\ Reached(c, "checkout") => Issued(c, "fetch")
    /\ OkBefore(c, "fetch", "show_current")
    /\ OkBefore(c, "fetch", "checkout")
    /\ \A i \in 1..Len(c.log) :
          (c.log[i].op = "fetch" /\ ~c.log[i].ok) =>
              (i = Len(c.log) /\ c.pc = "done" /\ ~c.result)

PreserveBranch(c) ==
    Started(c) /\ c.strategy = "preserve" /\ c.target_type = "branch"

\* C9 as stated: on every preparation path and in both implementations.
C9_Original ==
    \A p \in Procs : PreserveBranch(call[p]) => FetchFirst(call[p])

\* C9 amended: GitCheckoutManager fetches on every preparation path;
\* GitManager fetches only when the path was a repository at the start and
\* issues no fetch at all after a clone.
C9_FetchFirst ==
    \A p \in Procs :
        LET c == call[p]
        IN PreserveBranch(c) =>
              /\ (c.impl = "GitCheckoutManager" \/ c.start.kind = "repo") => FetchFirst(c)
              /\ (c.impl = "GitManager" /\ c.start.kind # "repo") => ~Reached(c, "fetch")

C9_Witness ==
    \E p \in Procs :
        /\ PreserveBranch(call[p])
        /\ call[p].impl = "GitCheckoutManager"
        /\ call[p].start.kind = "dir"
        /\ Len(call[p].log) >= 4
        /\ SubSeq(Ops(call[p]), 1, 4) = <<"remove", "clone", "fetch", "show_current">>

\* C10: a Preserve call for a branch that got past the checkout decision
\* (checkout done, or skipped because the query reported the target) has
\* invoked pull when it returns.
C10_AlwaysPull ==
    \A p \in Procs :
        LET c == call[p]
        IN (PreserveBranch(c) /\ c.pc = "done" /\ c.result) => Issued(c, "pull")

\* C11: a Preserve call for a branch that has issued pull returns success,
\* whether the pull succeeded or failed; pull is the last sub-operation.
C11_PullNeverFatal ==
    \A p \in Procs :
        LET c == call[p]
            n == Len(c.log)
        IN (PreserveBranch(c) /\ Issued(c, "pull")) =>
              /\ c.log[n].op = "pull"
              /\ c.pc = "done"
              /\ c.result

C11_Witness ==
    \E p \in Procs :
        LET c == call[p]
        IN /\ PreserveBranch(c) /\ c.pc = "done" /\ c.result
           /\ Issued(c, "pull")
           /\ ~c.log[Len(c.log)].ok

PreserveCommitOrTag(c) ==
    Started(c) /\ c.strategy = "preserve" /\ c.target_type \in {"commit", "tag"}

\* C12: under Preserve a commit or tag is checked out as soon as the
\* repository is prepared (after the clone, or after the clean), without a
\* current-branch query, fetch or pull; the call succeeds exactly when that
\* checkout succeeds.
C12_CommitTagCheckout ==
    \A p \in Procs :
        LET c == call[p]
            n == Len(c.log)
        IN PreserveCommitOrTag(c) =>
              /\ ~Reached(c, "fetch")
              /\ ~Reached(c, "pull")
              /\ ~Reached(c, "show_current")
              /\ \A i \in 1..n :
                    (c.log[i].op \in {"clone", "clean"} /\ c.log[i].ok) =>
                        IF i = n THEN c.pc = "checkout" ELSE c.log[i + 1].op = "checkout"
              /\ \A i \in 1..n :
                    c.log[i].op = "checkout" =>
                        (i = n /\ c.pc = "done" /\ c.result = c.log[i].ok)
              /\ (c.pc = "done" /\ c.result) => (n >= 1 /\ c.log[n].op = "checkout")

C12_Witness ==
    \E p \in Procs :
        LET c == call[p]
        IN /\ PreserveCommitOrTag(c) /\ c.pc = "done" /\ ~c.result
           /\ Ops(c) = <<"reset", "clean", "checkout">>

\* The sub-operations of the log that change the working copy.
Changing(c) == SelectSeq(Ops(c), LAMBDA o : o \notin {"fetch", "show_current"})

\* Preserve for branch release/1.2, the local path absent, the clone leaving
\* another branch checked out, every sub-operation succeeding.
Scenario(c) ==
    /\ PreserveBranch(c) /\ c.target = "release/1.2"
    /\ c.start.kind = "absent"
    /\ c.pc = "done" /\ AllOk(c)
    /\ Len(c.log) >= 1 /\ c.log[1].head # c.target

C14_CheckoutReference ==
    \A p \in Procs :
        LET c == call[p]
        IN \A i \in 1..Len(c.log) :
              c.log[i].op = "checkout" =>
                  c.log[i].arg = IF c.target_type = "tag" THEN "tags/" \o c.target
                                 ELSE c.target

C14_Witness ==
    \E p \in Procs :
        LET c == call[p]
        IN /\ c.pc = "done" /\ c.strategy = "preserve" /\ c.target_type = "tag"
           /\ c.target = "v1.0"
           /\ Len(c.log) >= 1
           /\ c.log[Len(c.log)] = [op |-> "checkout", ok |-> TRUE, arg |-> "tags/v1.0",
                                   at |-> "repo", head |-> "tags/v1.0"]

\* C15: after the current-branch query of a Preserve call for a branch, the
\* checkout is skipped (pull comes next) exactly when the query succeeded and
\* the branch it reported is the target, character for character; otherwise
\* checkout comes next.
C15_SkipIffExactMatch ==
    \A p \in Procs :
        LET c == call[p]
            n == Len(c.log)
        IN PreserveBranch(c) =>
              \A i \in 1..n :
                  c.log[i].op = "show_current" =>
                      LET onTarget == /\ c.log[i].ok
                                      /\ c.log[i].head \in Branches
                                      /\ c.log[i].head = c.target
                          next == IF i = n THEN c.pc ELSE c.log[i + 1].op
                      IN next = IF onTarget THEN "pull" ELSE "checkout"

C15_Witness ==
    \E p \in Procs :
        LET c == call[p]
            n == Len(c.log)
        IN /\ PreserveBranch(c) /\ c.target = "origin/main"
           /\ n >= 1
           /\ c.log[n].op = "show_current" /\ c.log[n].ok /\ c.log[n].head = "main"
           /\ c.pc = "checkout"


(***************************************************************************)
(* Properties of the retry executor                                        *)
(***************************************************************************)
BootEnded == boot.pc \in {"done", "raised"}

IsAttempt(e) == e.ev = "attempt"

IsFailedAttempt(e) == e.ev = "attempt" /\ e.kind \in FailureKinds

IsDelay(e) == e.ev = "sleep"

Count(s, P(_)) == Cardinality({i \in 1..Len(s) : P(s[i])})

\* The events of the call after its pre-flight check.
LoopTrace(b) == SelectSeq(b.trace, LAMBDA e : e.ev # "preflight")

\* C16: with a budget of N >= 1 the bootstrap command is invoked at most N
\* times, and when every attempt failed the call returns failure after
\* exactly N invocations with a message stating that N attempts were
\* exhausted.
C16_ExhaustedMessage ==
    boot.max_retries >= 1 =>
        /\ boot.invocations <= boot.max_retries
        /\ (boot.pc = "done" /\ ~boot.result /\ boot.invocations >= 1) =>
               /\ boot.invocations = boot.max_retries
               /\ boot.msg.after = boot.max_retries

\* C17: when the first success is attempt k, the call returns success after
\* exactly k invocations and k - 1 delays, nothing follows the successful
\* attempt, and the returned message states the count k exactly when k > 1.
C17_FirstSuccess ==
    LET t == LoopTrace(boot)
        k == boot.invocations
    IN /\ \A i \in 1..Len(t) :
              (t[i].ev = "attempt" /\ t[i].kind = "zero") =>
                  /\ i = Len(t)
                  /\ boot.pc = "done"
                  /\ boot.result
       /\ (boot.pc = "done" /\ boot.result) =>
              /\ k \in 1..boot.max_retries
              /\ k = Count(t, IsAttempt)
              /\ Count(t, IsFailedAttempt) = k - 1
              /\ boot.delays = k - 1
              /\ Count(t, IsDelay) = k - 1
              /\ t[Len(t)] = [ev |-> "attempt", kind |-> "zero"]
              /\ boot.msg.text = "completed"
              /\ boot.msg.after = IF k > 1 THEN k ELSE 0

C17_Witness ==
    /\ boot.pc = "done"
    /\ boot.result
    /\ boot.invocations = 3
    /\ boot.msg.after = 3

\* C18 as stated: every call performs the pre-flight check exactly once,
\* before any attempt, and a failed check returns failure with no
\* invocation and no delay.
C18_Original ==
    /\ BootEnded => boot.preflights = 1
    /\ \A i \in 1..Len(boot.trace) :
           boot.trace[i].ev = "preflight" => i = 1
    /\ (boot.preflights = 1 /\ boot.trace[1].kind = "not_found") =>
           /\ boot.pc = "done"
           /\ ~boot.result
           /\ boot.invocations = 0
           /\ boot.delays = 0

\* C18 amended: the pre-flight check is performed exactly once in a call
\* that finds the melos configuration and not at all in one that does not;
\* it precedes every attempt; a missing tool returns failure, and an
\* uncaught error of the check leaves the call, with no invocation and no
\* delay.
C18_PreflightOnce ==
    /\ boot.preflights <= 1
    /\ boot.preflights = Count(boot.trace, LAMBDA e : e.ev = "preflight")
    /\ BootEnded => boot.preflights = IF boot.config THEN 1 ELSE 0
    /\ \A i \in 1..Len(boot.trace) :
           boot.trace[i].ev = "preflight" => i = 1
    /\ boot.invocations >= 1 => boot.trace[1].ev = "preflight"
    /\ (boot.preflights = 1 /\ boot.trace[1].kind = "not_found") =>
           /\ boot.pc = "done"
           /\ ~boot.result
           /\ boot.msg.text = "not_found"
           /\ boot.invocations = 0
           /\ boot.delays = 0
    /\ boot.pc = "raised" =>
           /\ Len(boot.trace) = 1
           /\ boot.trace[1].ev = "preflight"
           /\ boot.trace[1].kind \in {"timeout", "error"}
           /\ boot.invocations = 0
           /\ boot.delays = 0
    /\ (boot.pc # "idle" /\ ~boot.config) =>
           /\ boot.pc = "done"
           /\ ~boot.result
           /\ boot.trace = <<>>

C18_Witness ==
    /\ boot.pc = "done"
    /\ boot.max_retries >= 1
    /\ boot.trace = <<[ev |-> "preflight", kind |-> "not_found"]>>
    /\ ~boot.result

\* C19: the kind of a failure does not matter: the call and its twin, in
\* which every timeout and every exception is a non-zero exit, are at the
\* same point with the same numbers of attempts and delays and the same
\* success flag.
C19_KindIrrelevant ==
    /\ boot.pc = twin.pc
    /\ boot.attempt = twin.attempt
    /\ boot.invocations = twin.invocations
    /\ boot.delays = twin.delays
    /\ boot.slept = twin.slept
    /\ boot.result = twin.result
    /\ Len(boot.trace) = Len(twin.trace)
    /\ \A i \in 1..Len(boot.trace) :
           /\ twin.trace[i].ev = boot.trace[i].ev
           /\ twin.trace[i].kind = IF IsAttempt(boot.trace[i])
                                    THEN AsExit(boot.trace[i].kind)
                                    ELSE boot.trace[i].kind

C19_Witness ==
    /\ boot.pc = "done"
    /\ twin.pc = "done"
    /\ boot.invocations = 3
    /\ \E i, j \in 1..Len(boot.trace) :
           /\ boot.trace[i] = [ev |-> "attempt", kind |-> "timeout"]
           /\ boot.trace[j] = [ev |-> "attempt", kind |-> "exception"]
           /\ twin.trace[i] = [ev |-> "attempt", kind |-> "nonzero"]
           /\ twin.trace[j] = [ev |-> "attempt", kind |-> "nonzero"]

\* C20: the delay is waited once after each failed attempt that is not the
\* last one of the budget and never otherwise: every delay stands between
\* two consecutive attempts, a failed attempt that has a successor is
\* followed by a delay, and a finished run of a >= 1 attempts has waited
\* a - 1 times.
C20_DelayBetweenAttempts ==
    LET t == LoopTrace(boot)
        n == Len(t)
    IN /\ boot.delays = Count(t, IsDelay)
       /\ boot.slept = boot.delays * RetryDelay
       /\ \A i \in 1..n :
              IsDelay(t[i]) =>
                  /\ i > 1
                  /\ IsFailedAttempt(t[i - 1])
                  /\ Count(SubSeq(t, 1, i), IsAttempt) < boot.max_retries
                  /\ IF i < n THEN IsAttempt(t[i + 1])
                              ELSE boot.pc = "attempt"
       /\ \A i \in 1..n :
              IsAttempt(t[i]) =>
                  /\ i < n => /\ IsFailedAttempt(t[i])
                              /\ IsDelay(t[i + 1])
                  /\ (i = n /\ IsFailedAttempt(t[i])) =>
                         IF Count(t, IsAttempt) < boot.max_retries
                         THEN boot.pc = "sleep"
                         ELSE boot.pc = "done"
       /\ (boot.pc = "done" /\ boot.invocations >= 1) =>
              /\ boot.delays = boot.invocations - 1
              /\ IsAttempt(t[n])

C20_Witness ==
    /\ boot.pc = "done"
    /\ ~boot.result
    /\ boot.invocations = 3
    /\ boot.delays = 2
    /\ boot.slept = 2 * RetryDelay

\* C21: run_melos_bootstrap never raises to its caller: whatever the
\* pre-flight check and the attempts do, the call ends by returning a
\* (success, message) pair.
C21_NeverRaises ==
    boot.pc # "raised"

\* The budget as range(max_retries) sees it.
Budget(b) == IF b.max_retries > 0 THEN b.max_retries ELSE 0

\* C29: a call that has entered the retry loop returns: its attempt counter
\* never decreases and grows by one between two attempts, each attempt is
\* made at a counter value below max_retries that no earlier attempt had,
\* and the call is done after at most max_retries attempts.
C29_Terminates ==
    /\ [](/\ boot.invocations <= Budget(boot)
          /\ boot.attempt <= Budget(boot)
          /\ boot.pc = "attempt" =>
                 /\ boot.invocations = boot.attempt
                 /\ boot.attempt < boot.max_retries
          /\ boot.pc = "sleep" => boot.invocations = boot.attempt + 1)
    /\ [][boot'.pc # "idle" =>
             /\ boot'.attempt >= boot.attempt
             /\ (boot.pc = "sleep" => boot'.attempt = boot.attempt + 1)
             /\ boot'.invocations \in
                    {boot.invocations, boot.invocations + 1}]_vars
    /\ (boot.pc \in {"attempt", "sleep"}) ~> (boot.pc = "done")

C29_Witness ==
    /\ boot.pc = "done"
    /\ boot.max_retries = 3
    /\ boot.invocations = 3
    /\ boot.attempt = 2


(***************************************************************************)
(* Properties of artifact extraction, entry-point location and pipeline    *)
(***************************************************************************)
\* Rule r of the cascade has a match somewhere in the text o.
RuleMatches(r, o) ==
    LET n == Len(o)
        Word(s, e) == \A m \in s..e : ~IsSpace(o[m])
        Marker(x) ==
            \E i \in 1..n :
                /\ o[i] = "Built"
                /\ \E j \in (i + 1)..n :
                       /\ \A m \in (i + 1)..j : IsSpace(o[m])
                       /\ \E k \in (j + 2)..n : o[k] = x /\ Word(j + 1, k)
    IN CASE r = 1 -> Marker(".aab")
         [] r = 2 -> Marker(".apk")
         [] r = 3 -> \E i \in 1..n : /\ o[i] = "build/"
                                     /\ \E k \in (i + 1)..n :
                                            o[k] \in Extensions /\ Word(i, k)
         [] r = 4 -> \E k \in 2..n : /\ o[k] \in Extensions
                                     /\ o[k - 1] = "app-release"
         [] OTHER -> \E k \in 2..n : /\ o[k] \in Extensions
                                     /\ ~IsSpace(o[k - 1])

\* What re.search captures for rule r.
RuleCapture(r, o) ==
    CASE r = 1 -> Search(o, "aab")
      [] r = 2 -> Search(o, "apk")
      [] r = 3 -> Search(o, "build_path")
      [] r = 4 -> Search(o, "file")
      [] OTHER -> Search(o, "general")

\* The word w stands in o right after "Built" and white space.
AfterMarker(o, w) ==
    \E i \in 1..Len(o) :
        /\ o[i] = "Built"
        /\ \E j \in (i + 1)..Len(o) :
               /\ \A m \in (i + 1)..j : IsSpace(o[m])
               /\ j + Len(w) <= Len(o)
               /\ SubSeq(o, j + 1, j + Len(w)) = w

\* C22: extract_file_path returns the capture of the lowest-numbered rule
\* that matches anywhere in the output, wherever the matches stand; an
\* output with a "Built <path>.aab" marker yields the path after the marker,
\* whatever other .aab or .apk tokens stand before or after it.
C22_CascadePrecedence ==
    ext.pc = "done" =>
        LET o == ext.output
            R == {r \in 1..5 : RuleMatches(r, o)}
        IN /\ ext.result.some = (R # {})
           /\ R # {} => ext.result = RuleCapture(Min(R), o)
           /\ RuleMatches(1, o) =>
                  /\ AfterMarker(o, ext.result.path)
                  /\ ext.result.path[Len(ext.result.path)] = ".aab"

C22_Witness ==
    /\ ext.pc = "done"
    /\ ext.output = <<"x", ".aab", " ", "Built", " ", "build/", "x", ".aab">>
    /\ ext.result = Some(<<"build/", "x", ".aab">>)

\* The stage has been run in this pipeline run.
Ran(stage) == \E i \in 1..Len(pipe.stages) : pipe.stages[i].stage = stage

HasExtension(o) == \E i \in 1..Len(o) : o[i] \in Extensions

\* C23: extract_file_path returns None for an output without a substring
\* that ends in .aab or .apk; the Android build then returns no path (it
\* raises) and main.build returns None, main.deployment False.
C23_NoArtifactFails ==
    /\ (ext.pc = "done" /\ ~HasExtension(ext.output)) => ext.result = None
    /\ (pipe.platform = "android" /\ Ran("resolve")
            /\ ~HasExtension(pipe.output)) =>
           /\ pipe.extracted = None
           /\ pipe.pc = "done"
           /\ pipe.error = "extract"
           /\ pipe.built = None
           /\ ~pipe.deployed
           /\ ~Ran("deploy")
           /\ pipe.mode = "builder" => pipe.raised

C23_Witness ==
    /\ pipe.pc = "done"
    /\ pipe.mode = "build"
    /\ pipe.platform = "android"
    /\ pipe.exit = "zero"
    /\ pipe.output = <<"x">>
    /\ pipe.built = None
    /\ pipe.error = "extract"

\* C24: the exit status of the build tool is the sole success signal: after
\* a non-zero exit of flutter build no artifact is resolved and no path is
\* returned, whatever the text.
C24_ExitStatusDecides ==
    pipe.exit = "nonzero" =>
        /\ ~pipe.extracted.some
        /\ ~pipe.built.some
        /\ ~Ran("deploy")

StageOrder ==
    [reconcile |-> 1, bootstrap |-> 2, locate |-> 3, build_tool |-> 4,
     resolve |-> 5, deploy |-> 6]

\* C25: the stages run in the order reconcile, bootstrap, entry-point
\* location, build tool, artifact resolution, deploy, and a stage runs only
\* when every earlier stage reported success.
C25_StrictSequence ==
    pipe.mode # "builder" =>
        \A i, j \in 1..Len(pipe.stages) :
            i < j =>
                /\ StageOrder[pipe.stages[i].stage]
                       < StageOrder[pipe.stages[j].stage]
                /\ pipe.stages[i].ok

\* C26: when a platform build has returned its path, the working directory
\* is the one the build was entered with.
C26_CwdRestored ==
    pipe.built.some => pipe.cwd = pipe.entry_cwd

C26_Witness ==
    /\ pipe.pc = "done"
    /\ pipe.mode = "builder"
    /\ pipe.build_path = "app"
    /\ pipe.built.some
    /\ pipe.cwd = "start"

\* C27: a platform build that fails after the change of directory leaves
\* the process in the build path; one that fails because the build path is
\* missing leaves the working directory as it was.
C27_CwdNotRestored ==
    (pipe.pc = "done" /\ ~pipe.built.some) =>
        /\ pipe.error \in {"pod_install", "bundle_id", "build_tool",
                           "extract", "export"} =>
               /\ pipe.cwd = pipe.build_path
               /\ pipe.build_path = "app" => pipe.cwd # pipe.entry_cwd
        /\ pipe.error = "no_build_path" => pipe.cwd = pipe.entry_cwd

C27_Witness ==
    /\ pipe.pc = "done"
    /\ pipe.platform = "ios"
    /\ pipe.error = "export"
    /\ pipe.cwd = "app"
    /\ pipe.entry_cwd = "start"

\* The indices of s are strictly increasing in the order of the traversal.
InTraversalOrder(s) ==
    \A i, j \in 1..Len(s) : i < j => s[i].file < s[j].file

\* C28: every readable file with a main pattern is a candidate, with or
\* without a launch call, in traversal order; the entry points are exactly
\* the candidates with a launch call in the same order; the pick is the
\* first of them.
C28_CandidatesAndPick ==
    Ran("locate") =>
        LET files == pipe.files
            cands == pipe.main_files
            eps == pipe.entry_points
        IN /\ {cands[i].file : i \in 1..Len(cands)}
                  = {f \in 1..Len(files) : files[f].readable /\ files[f].main}
           /\ \A i \in 1..Len(cands) :
                  cands[i].has_runapp = files[cands[i].file].runapp
           /\ InTraversalOrder(cands)
           /\ {eps[i] : i \in 1..Len(eps)}
                  = {cands[i] : i \in {k \in 1..Len(cands) : cands[k].has_runapp}}
           /\ InTraversalOrder(eps)
           /\ eps # <<>> =>
                  /\ pipe.pick = eps[1]
                  /\ \A i \in 1..Len(eps) : pipe.pick.file <= eps[i].file
                  /\ pipe.build_path = "app"

C28_Witness ==
    /\ Ran("locate")
    /\ Len(pipe.files) = 3
    /\ Len(pipe.main_files) = 2
    /\ ~pipe.main_files[1].has_runapp
    /\ pipe.entry_points = <<[file |-> 3, has_runapp |-> TRUE]>>
    /\ pipe.pick.file = 3


\* C30: nothing keeps two calls apart on the same local path.  With a
\* benign environment a call that no other call disturbed returns success
\* with the local path on its target, so every failure and every return on
\* another target comes from a sub-operation of the other call that changed
\* the path in between.
C30_OnlyInterferenceFails ==
    \A p \in Procs :
        LET c == call[p]
        IN (c.pc = "done" /\ ~c.disturbed) =>
               /\ c.result
               /\ c.end.kind = "repo"
               /\ c.end.head = c.target
               /\ \A i \in 1..Len(c.log) : c.log[i].ok

\* Call 1 cloned into the path call 2 had just re-created, and failed,
\* while call 2 returned success.
C30_Witness ==
    /\ call[1].pc = "done"
    /\ call[2].pc = "done"
    /\ call[1].disturbed
    /\ ~call[1].result
    /\ call[1].log[Len(call[1].log)].op = "clone"
    /\ call[1].log[Len(call[1].log)].at = "repo"
    /\ call[2].result

\* The sub-operations that run inside the working copy.
WorkingCopyOps == {"reset", "clean", "fetch", "show_current", "checkout", "pull"}

\* C31: in a serialized call clone is invoked only when the local path does
\* not exist at that moment: it is the first sub-operation of a Preserve call
\* that started on an absent path, or it directly follows a remove of the
\* same call that succeeded; it is never started on an existing directory.
C31_CloneOnAbsent ==
    \A p \in Procs :
        LET c == call[p]
        IN /\ \A i \in 1..Len(c.log) :
                  c.log[i].op = "clone" =>
                      /\ c.log[i].at = "absent"
                      /\ \/ i = 1 /\ c.strategy = "preserve" /\ ~Exists(c.start)
                         \/ i > 1 /\ c.log[i - 1].op = "remove" /\ c.log[i - 1].ok
           /\ c.pc = "clone" => ~Exists(fs)

\* A Fresh call removed an existing repository and cloned into the path.
C31_Witness ==
    \E p \in Procs :
        LET c == call[p]
        IN /\ c.strategy = "fresh" /\ c.start.kind = "repo"
           /\ Len(c.log) >= 2
           /\ c.log[1].op = "remove" /\ c.log[1].ok /\ c.log[1].at = "repo"
           /\ c.log[2].op = "clone" /\ c.log[2].ok /\ c.log[2].at = "absent"

\* C32: reset --hard, clean, fetch, branch --show-current, checkout and pull
\* are invoked only where the local path exists and holds the VCS metadata.
C32_InsideWorkingCopy ==
    \A p \in Procs :
        LET c == call[p]
        IN /\ \A i \in 1..Len(c.log) :
                  c.log[i].op \in WorkingCopyOps => c.log[i].at = "repo"
           /\ c.pc \in WorkingCopyOps => IsGitRepo(fs)

\* A Preserve call on a directory without .git ran its checkout in the
\* working copy the clone had created.
C32_Witness ==
    \E p \in Procs :
        LET c == call[p]
        IN /\ c.strategy = "preserve" /\ c.start.kind = "dir"
           /\ Ops(c) = <<"remove", "clone", "checkout">>
           /\ c.log[3].at = "repo"

\* The last sub-operation of a call that issued one.
LastStep(c) == c.log[Len(c.log)]

\* GitManager's checkout command for the strategy of the call.
GM_Ref(c) ==
    IF c.strategy = "preserve" THEN GM_CheckoutCommand(c.target, c.target_type)
    ELSE GM_FreshCheckoutCommand(c.target, c.target_type)

\* The two implementations enter the call at the same place, build the same
\* checkout command and decide alike whether a checkout is needed, whatever
\* the current-branch query answers on the local path.
SameEntryAndCommand(c) ==
    /\ GM_Enter(c, c.start) = CM_Enter(c, c.start)
    /\ GM_Ref(c) = CM_BuildCheckoutCommand(c.target, c.target_type)
    /\ \A ok \in BOOLEAN :
           LET out == RunCommandText(ok, ShowCurrentOutput(fs))
           IN GM_NeedsCheckout(ok, out, c.target)
                  = ~CM_IsAlreadyOnTarget(ok, out, c.target)

\* The two implementations continue alike after the last sub-operation.
SameNext(c) ==
    LET e == LastStep(c)
    IN GM_After(c, e.op, e.ok, c.needs_checkout)
           = CM_After(c, e.op, e.ok, c.needs_checkout)

\* A successful clone under Preserve with a branch target.
ClonedForBranch(c) ==
    /\ PreserveBranch(c)
    /\ c.log # <<>>
    /\ LastStep(c).op = "clone" /\ LastStep(c).ok

\* C33 as stated: from every state of every call, with the same outcome of
\* the sub-operation just issued, the two implementations issue the same
\* next sub-operation or return the same value, so that by induction they
\* issue the same sequence and return the same value.
C33_Original ==
    \A p \in Procs :
        LET c == call[p]
        IN Started(c) =>
               /\ SameEntryAndCommand(c)
               /\ c.log # <<>> => SameNext(c)

\* C33: the two implementations agree everywhere but after a successful
\* clone under Preserve with a branch target, where GitManager goes on to
\* the current-branch query and GitCheckoutManager fetches first.
C33_EquivalentButFetch ==
    \A p \in Procs :
        LET c == call[p]
        IN Started(c) =>
               /\ SameEntryAndCommand(c)
               /\ (c.log # <<>> /\ ~ClonedForBranch(c)) => SameNext(c)
               /\ ClonedForBranch(c) =>
                      /\ GM_After(c, "clone", TRUE, c.needs_checkout) = "show_current"
                      /\ CM_After(c, "clone", TRUE, c.needs_checkout) = "fetch"
                      /\ c.pc = IF c.impl = "GitManager" THEN "show_current" ELSE "fetch"

\* GitCheckoutManager is about to fetch after the clone of a Preserve call
\* for a branch that started on an absent path.
C33_Witness ==
    \E p \in Procs :
        LET c == call[p]
        IN /\ c.impl = "GitCheckoutManager"
           /\ ClonedForBranch(c)
           /\ c.start.kind = "absent"
           /\ Ops(c) = <<"clone">>
           /\ c.pc = "fetch"

\* C34: under Preserve with a branch target a failed checkout is the last
\* sub-operation of the call, the call returns failure and issues no pull; a
\* call that returned success has no failed sub-operation but a pull or the
\* current-branch query that led to the checkout.
C34_CheckoutFailureFatal ==
    \A p \in Procs :
        LET c == call[p]
            n == Len(c.log)
        IN PreserveBranch(c) =>
              /\ \A i \in 1..n :
                     (c.log[i].op = "checkout" /\ ~c.log[i].ok) =>
                         /\ i = n
                         /\ c.pc = "done"
                         /\ ~c.result
                         /\ ~Reached(c, "pull")
              /\ (c.pc = "done" /\ c.result) =>
                     \A i \in 1..n :
                         ~c.log[i].ok => c.log[i].op \in {"pull", "show_current"}

\* The working copy was on another branch, the checkout of the target
\* failed and the call returned failure.
C34_Witness ==
    \E p \in Procs :
        LET c == call[p]
            n == Len(c.log)
        IN /\ PreserveBranch(c) /\ c.pc = "done" /\ ~c.result
           /\ c.start.kind = "repo" /\ c.start.head # c.target
           /\ n >= 2
           /\ c.log[n - 1].op = "show_current" /\ c.log[n - 1].ok
           /\ c.log[n].op = "checkout" /\ ~c.log[n].ok

\* The pipeline run has decided whether to bootstrap.
PastBootstrap ==
    pipe.mode # "builder" /\ (Ran("locate") \/ Ran("bootstrap") \/ pipe.pc = "locate")

\* C35: main.build has invoked the bootstrap exactly when the working copy
\* has a melos configuration; after a bootstrap that failed the run is over
\* without a locate or build-tool stage, and returns no artifact path.
C35_BootstrapGate ==
    /\ PastBootstrap => (Ran("bootstrap") <=> pipe.melos)
    /\ \A i \in 1..Len(pipe.stages) :
           (pipe.stages[i].stage = "bootstrap" /\ ~pipe.stages[i].ok) =>
               /\ i = Len(pipe.stages)
               /\ pipe.pc = "done"
               /\ pipe.error = "bootstrap"
               /\ pipe.built = None
               /\ ~pipe.deployed
               /\ ~Ran("locate")
               /\ ~Ran("build_tool")

\* A build whose working copy has a melos configuration ended at the failed
\* bootstrap.
C35_Witness ==
    /\ pipe.pc = "done"
    /\ pipe.mode = "build"
    /\ pipe.melos
    /\ Len(pipe.stages) = 2
    /\ pipe.stages[2] = Stage("bootstrap", FALSE)
    /\ pipe.built = None

\* C36: when the locator yields no candidate with a launch call the run
\* ends in failure without the build tool, and the build tool of main.build
\* runs only in the application directory of a picked launch-call candidate.
C36_NoEntryNoBuild ==
    /\ (Ran("locate") /\ pipe.entry_points = <<>>) =>
           /\ pipe.pc = "done"
           /\ pipe.built = None
           /\ ~Ran("build_tool")
    /\ (Ran("locate") /\ Ran("build_tool")) =>
           /\ pipe.pick.file # 0
           /\ pipe.pick.has_runapp
           /\ pipe.build_path = "app"

\* C37: a call with max_retries <= 0 makes no bootstrap attempt and waits no
\* delay, never reports success, and when its pre-flight check passed it
\* returns failure with the message of the exhausted budget.
C37_EmptyBudgetFails ==
    (boot.pc # "idle" /\ boot.max_retries <= 0) =>
        /\ boot.pc \notin {"attempt", "sleep"}
        /\ boot.invocations = 0
        /\ boot.delays = 0
        /\ boot.slept = 0
        /\ LoopTrace(boot) = <<>>
        /\ ~boot.result
        /\ (boot.preflights = 1
                /\ boot.trace[1].kind \in {"ok", "nonzero"}) =>
               /\ boot.pc = "done"
               /\ boot.msg.text = "failed"
               /\ boot.msg.after = boot.max_retries

\* A call with max_retries = 0 passed the pre-flight check and returned
\* failure without an attempt.
C37_Witness ==
    /\ boot.pc = "done"
    /\ boot.max_retries = 0
    /\ boot.config
    /\ boot.trace = <<[ev |-> "preflight", kind |-> "ok"]>>
    /\ ~boot.result
    /\ boot.msg.text = "failed"
    /\ boot.invocations = 0

=============================================================================
